---- MODULE Spec2Model ----
(***************************************************************************)
(* Camera stabilisation module (flight/modules/CameraStab/camerastab.c).   *)
(*                                                                         *)
(* The periodic callback attitudeUpdated is one atomic action (the module  *)
(* has no thread of its own and the callback has no suspension point).     *)
(* C floats are modelled as fixed-point integers in units of 1/Scale, and  *)
(* every float division rounds to the nearest unit.  The build modelled    *)
(* has USE_GIMBAL_LPF and USE_GIMBAL_FF defined.                           *)
(***************************************************************************)
EXTENDS Integers, Sequences, FiniteSets, TLC

\* ------------------------------------------------------------------------
\* Number representation
\* ------------------------------------------------------------------------

\* one unit of a float is 1/Scale
Scale == 1000

\* n / d rounded to the nearest integer, ties away from zero (d > 0)
Quot(n, d) ==
    IF n >= 0 THEN (2 * n + d) \div (2 * d) ELSE -((2 * (-n) + d) \div (2 * d))

fabsf(x) == IF x < 0 THEN -x ELSE x

\* ------------------------------------------------------------------------
\* Configuration and enumerations
\* ------------------------------------------------------------------------

SAMPLE_PERIOD_MS == 10

\* milliseconds per RTOS tick
portTICK_RATE_MS == 1

CAMERASTABSETTINGS_INPUT_ROLL == 0
CAMERASTABSETTINGS_INPUT_PITCH == 1
CAMERASTABSETTINGS_INPUT_YAW == 2
CAMERASTABSETTINGS_INPUT_NUMELEM == 3

Axes == 0 .. (CAMERASTABSETTINGS_INPUT_NUMELEM - 1)

\* ------------------------------------------------------------------------
\* State
\* ------------------------------------------------------------------------

VARIABLES
    csd,            \* struct CameraStab_data
    cameraDesired,  \* the CameraDesired object: the three output channels
    pc,             \* "idle" between ticks, "asserted" after PIOS_Assert(0)
    nTicks,         \* number of ticks run so far
    tickIn,         \* what the last tick read: settings, attitude, accessories, clock
    tickOut         \* what the last tick did: writes, per-axis outputs

vars == <<csd, cameraDesired, pc, nTicks, tickIn, tickOut>>

\* ------------------------------------------------------------------------
\* bound(): symmetric saturation
\* ------------------------------------------------------------------------

bound(val, limit) ==
    IF val > limit THEN limit
    ELSE IF val < -limit THEN -limit
    ELSE val

\* ------------------------------------------------------------------------
\* Elapsed time between two callbacks (dT_millis)
\* ------------------------------------------------------------------------

\* faulty variant: a reading below the stored one gives the distance between them
ElapsedMillis_Distance(thisSysTime, lastSysTime) ==
    IF thisSysTime > lastSysTime
    THEN (thisSysTime - lastSysTime) * portTICK_RATE_MS
    ELSE IF thisSysTime < lastSysTime
    THEN (lastSysTime - thisSysTime) * portTICK_RATE_MS
    ELSE SAMPLE_PERIOD_MS

ElapsedMillis(thisSysTime, lastSysTime) ==
    IF thisSysTime > lastSysTime
    THEN (thisSysTime - lastSysTime) * portTICK_RATE_MS
    ELSE SAMPLE_PERIOD_MS

\* ------------------------------------------------------------------------
\* Control input of one axis
\* ------------------------------------------------------------------------

\* the AccessoryDesired instance an input selector names
AccessoryInstance(input) ==
    CASE input = "Accessory0" -> 0
      [] input = "Accessory1" -> 1
      [] input = "Accessory2" -> 2

\* AccessoryDesiredInstGet returns 0 exactly for a registered instance;
\* accessory is the function from the registered instances to AccessoryVal
AccessoryDesiredInstGet(accessory, inst) == inst \in DOMAIN accessory

\* StabilizationMode ATTITUDE: the stick position scaled by the input range
AttitudeTrim(AccessoryVal, InputRange) == AccessoryVal * InputRange

\* faulty variant: the integrated trim is not clamped to the input range
AxisLockTrim_Unbounded(cur, AccessoryVal, InputRate, MaxAxisLockRate, InputRange, dT_millis) ==
    LET input_rate == AccessoryVal * InputRate
    IN  IF fabsf(input_rate) > MaxAxisLockRate
        THEN cur + Quot(input_rate * dT_millis, 1000)
        ELSE cur

\* faulty variant: a rate equal to the threshold is integrated
AxisLockTrim_Inclusive(cur, AccessoryVal, InputRate, MaxAxisLockRate, InputRange, dT_millis) ==
    LET input_rate == AccessoryVal * InputRate
    IN  IF fabsf(input_rate) >= MaxAxisLockRate
        THEN bound(cur + Quot(input_rate * dT_millis, 1000), InputRange * Scale)
        ELSE cur

\* StabilizationMode AXISLOCK: the stick is a rate, integrated outside the
\* dead band and clamped to the input range
AxisLockTrim(cur, AccessoryVal, InputRate, MaxAxisLockRate, InputRange, dT_millis) ==
    LET input_rate == AccessoryVal * InputRate
    IN  IF fabsf(input_rate) > MaxAxisLockRate
        THEN bound(cur + Quot(input_rate * dT_millis, 1000), InputRange * Scale)
        ELSE cur

\* faulty variant: an axis without input source reads accessory 0
ProcessInput_IgnoreNone(i, cur, cameraStab, accessory, dT_millis) ==
    LET inst == IF cameraStab.Input[i] = "None" THEN 0
                ELSE AccessoryInstance(cameraStab.Input[i])
    IN  IF ~AccessoryDesiredInstGet(accessory, inst)
        THEN [asserted |-> FALSE, val |-> cur]
        ELSE CASE cameraStab.StabilizationMode[i] = "Attitude" ->
                    [asserted |-> FALSE,
                     val |-> AttitudeTrim(accessory[inst], cameraStab.InputRange[i])]
               [] cameraStab.StabilizationMode[i] = "AxisLock" ->
                    [asserted |-> FALSE,
                     val |-> AxisLockTrim(cur, accessory[inst], cameraStab.InputRate[i],
                                          cameraStab.MaxAxisLockRate,
                                          cameraStab.InputRange[i], dT_millis)]
               [] OTHER -> [asserted |-> TRUE, val |-> cur]

\* faulty variant: a stabilization mode outside the enumeration is skipped
ProcessInput_NoAssert(i, cur, cameraStab, accessory, dT_millis) ==
    IF cameraStab.Input[i] = "None"
    THEN [asserted |-> FALSE, val |-> cur]
    ELSE IF ~AccessoryDesiredInstGet(accessory, AccessoryInstance(cameraStab.Input[i]))
    THEN [asserted |-> FALSE, val |-> cur]
    ELSE LET AccessoryVal == accessory[AccessoryInstance(cameraStab.Input[i])]
         IN  CASE cameraStab.StabilizationMode[i] = "Attitude" ->
                    [asserted |-> FALSE,
                     val |-> AttitudeTrim(AccessoryVal, cameraStab.InputRange[i])]
               [] cameraStab.StabilizationMode[i] = "AxisLock" ->
                    [asserted |-> FALSE,
                     val |-> AxisLockTrim(cur, AccessoryVal, cameraStab.InputRate[i],
                                          cameraStab.MaxAxisLockRate,
                                          cameraStab.InputRange[i], dT_millis)]
               [] OTHER -> [asserted |-> FALSE, val |-> cur]

\* "read and process control input": the new csd->inputs[i], or an assertion
ProcessInput(i, cur, cameraStab, accessory, dT_millis) ==
    IF cameraStab.Input[i] = "None"
    THEN [asserted |-> FALSE, val |-> cur]
    ELSE IF ~AccessoryDesiredInstGet(accessory, AccessoryInstance(cameraStab.Input[i]))
    THEN [asserted |-> FALSE, val |-> cur]
    ELSE LET AccessoryVal == accessory[AccessoryInstance(cameraStab.Input[i])]
         IN  CASE cameraStab.StabilizationMode[i] = "Attitude" ->
                    [asserted |-> FALSE,
                     val |-> AttitudeTrim(AccessoryVal, cameraStab.InputRange[i])]
               [] cameraStab.StabilizationMode[i] = "AxisLock" ->
                    [asserted |-> FALSE,
                     val |-> AxisLockTrim(cur, AccessoryVal, cameraStab.InputRate[i],
                                          cameraStab.MaxAxisLockRate,
                                          cameraStab.InputRange[i], dT_millis)]
               [] OTHER -> [asserted |-> TRUE, val |-> cur]

\* ------------------------------------------------------------------------
\* Attitude low-pass filter.  The guard "if (cameraStab.ResponseTime.data)"
\* tests the address of the array and is always true: the filter runs on
\* every axis, and a response time of 0 passes the sample through.
\* ------------------------------------------------------------------------

LowPass(rt, prev, attitude, dT_millis) ==
    Quot(rt * prev + dT_millis * attitude, rt + dT_millis)

\* ------------------------------------------------------------------------
\* Feed forward
\* ------------------------------------------------------------------------

\* faulty variant: the roll correction is taken whatever the gimbal type
GimbalTypeCorrection_Always(index, cameraStab, attitudeState) ==
    [asserted |-> cameraStab.GimbalType \notin
                    {"Generic", "RollPitchMixed", "YawRollPitch", "YawPitchRoll"},
     val |-> IF index = CAMERASTABSETTINGS_INPUT_ROLL
             THEN Quot((cameraStab.OutputRange[CAMERASTABSETTINGS_INPUT_PITCH] * Scale
                          - fabsf(attitudeState[CAMERASTABSETTINGS_INPUT_PITCH])),
                       cameraStab.OutputRange[CAMERASTABSETTINGS_INPUT_PITCH])
             ELSE Scale]

\* the factor that lowers the feed forward near the limit of the other axis;
\* an unknown gimbal type asserts
GimbalTypeCorrection(index, cameraStab, attitudeState) ==
    CASE cameraStab.GimbalType \in {"Generic", "RollPitchMixed"} ->
            [asserted |-> FALSE, val |-> Scale]
      [] cameraStab.GimbalType = "YawRollPitch" ->
            [asserted |-> FALSE,
             val |-> IF index = CAMERASTABSETTINGS_INPUT_ROLL
                     THEN Quot((cameraStab.OutputRange[CAMERASTABSETTINGS_INPUT_PITCH] * Scale
                                  - fabsf(attitudeState[CAMERASTABSETTINGS_INPUT_PITCH])),
                               cameraStab.OutputRange[CAMERASTABSETTINGS_INPUT_PITCH])
                     ELSE Scale]
      [] cameraStab.GimbalType = "YawPitchRoll" ->
            [asserted |-> FALSE,
             val |-> IF index = CAMERASTABSETTINGS_INPUT_PITCH
                     THEN Quot((cameraStab.OutputRange[CAMERASTABSETTINGS_INPUT_ROLL] * Scale
                                  - fabsf(attitudeState[CAMERASTABSETTINGS_INPUT_ROLL])),
                               cameraStab.OutputRange[CAMERASTABSETTINGS_INPUT_ROLL])
                     ELSE Scale]
      [] OTHER -> [asserted |-> TRUE, val |-> Scale]

\* accumulator += (attitude - last) * gain * correction
FFAccumulate(accumulator, attitude, ffLastAttitude, FeedForward, gimbalTypeCorrection) ==
    accumulator + Quot((attitude - ffLastAttitude) * FeedForward * gimbalTypeCorrection, Scale)

\* accumulator -= accumulator / max(1, time / dT)
FFDecay(accumulator, AccelTime, DecelTime, dT_millis) ==
    LET time == IF accumulator > 0 THEN AccelTime ELSE DecelTime
    IN  IF time < dT_millis
        THEN 0
        ELSE accumulator - Quot(accumulator * dT_millis, time)

\* faulty variant: the acceleration is not limited
AccelLimit_Off(attitude, ffLastAttitudeFiltered, MaxAccel, dT_millis) == attitude

\* "apply acceleration limit"
AccelLimit(attitude, ffLastAttitudeFiltered, MaxAccel, dT_millis) ==
    LET delta    == attitude - ffLastAttitudeFiltered
        maxDelta == Quot(MaxAccel * Scale * dT_millis, 1000)
    IN  IF fabsf(delta) > maxDelta
        THEN ffLastAttitudeFiltered + (IF delta > 0 THEN maxDelta ELSE -maxDelta)
        ELSE attitude

\* applyFeedForward: the new attitude and the new filter memory of axis index
applyFeedForward(index, dT_millis, attitude, cameraStab, d, attitudeState) ==
    LET corr == GimbalTypeCorrection(index, cameraStab, attitudeState)
        acc1 == FFAccumulate(d.ffFilterAccumulator[index], attitude, d.ffLastAttitude[index],
                             cameraStab.FeedForward[index], corr.val)
        att1 == attitude + acc1
        acc2 == FFDecay(acc1, cameraStab.AccelTime[index], cameraStab.DecelTime[index], dT_millis)
        att2 == att1 + acc2
        att3 == AccelLimit(att2, d.ffLastAttitudeFiltered[index], cameraStab.MaxAccel, dT_millis)
    IN  IF corr.asserted
        THEN [asserted |-> TRUE, attitude |-> attitude, csd |-> d]
        ELSE [asserted |-> FALSE, attitude |-> att3,
              csd |-> [d EXCEPT !.ffFilterAccumulator[index] = acc2,
                                !.ffLastAttitude[index] = attitude,
                                !.ffLastAttitudeFiltered[index] = att3]]

\* ------------------------------------------------------------------------
\* Servo output
\* ------------------------------------------------------------------------

\* output = bound((attitude + csd->inputs[i]) / OutputRange[i], 1.0f)
ServoOutput(attitude, input, OutputRange) ==
    bound(Quot(attitude + input, OutputRange), Scale)

\* elevon mixing, servo 1: (reversed pitch) + roll, or pitch + roll
ElevonServo1(Servo1PitchReverse, elevon_pitch, elevon_roll) ==
    IF Servo1PitchReverse = "True"
    THEN Quot((Scale - elevon_pitch) + elevon_roll, 2)
    ELSE Quot(elevon_pitch + elevon_roll, 2)

\* faulty variant: servo 2 is never reversed
ElevonServo2_NoReverse(Servo2PitchReverse, elevon_pitch, elevon_roll) ==
    Quot(elevon_pitch - elevon_roll, 2)

\* elevon mixing, servo 2: (reversed pitch) - roll, or pitch - roll
ElevonServo2(Servo2PitchReverse, elevon_pitch, elevon_roll) ==
    IF Servo2PitchReverse = "True"
    THEN Quot((Scale - elevon_pitch) - elevon_roll, 2)
    ELSE Quot(elevon_pitch - elevon_roll, 2)

\* one CameraDesired...Set call made while axis i is processed
Write(i, channel, value) == [axis |-> i, channel |-> channel, value |-> value]

\* faulty variant: the roll axis writes its channel whatever the gimbal type
ChannelWrites_RollAlways(i, output, elevon_roll, cameraStab) ==
    CASE i = CAMERASTABSETTINGS_INPUT_ROLL ->
            << Write(i, "RollOrServo1", output) >>
      [] i = CAMERASTABSETTINGS_INPUT_PITCH ->
            IF cameraStab.GimbalType = "RollPitchMixed"
            THEN << Write(i, "RollOrServo1",
                          ElevonServo1(cameraStab.Servo1PitchReverse, output, elevon_roll)),
                    Write(i, "PitchOrServo2",
                          ElevonServo2(cameraStab.Servo2PitchReverse, output, elevon_roll)) >>
            ELSE << Write(i, "PitchOrServo2", output) >>
      [] i = CAMERASTABSETTINGS_INPUT_YAW ->
            << Write(i, "Yaw", output) >>

\* "set output channels": the Set calls axis i makes, in order
ChannelWrites(i, output, elevon_roll, cameraStab) ==
    CASE i = CAMERASTABSETTINGS_INPUT_ROLL ->
            IF cameraStab.GimbalType = "RollPitchMixed"
            THEN << >>
            ELSE << Write(i, "RollOrServo1", output) >>
      [] i = CAMERASTABSETTINGS_INPUT_PITCH ->
            IF cameraStab.GimbalType = "RollPitchMixed"
            THEN << Write(i, "RollOrServo1",
                          ElevonServo1(cameraStab.Servo1PitchReverse, output, elevon_roll)),
                    Write(i, "PitchOrServo2",
                          ElevonServo2(cameraStab.Servo2PitchReverse, output, elevon_roll)) >>
            ELSE << Write(i, "PitchOrServo2", output) >>
      [] i = CAMERASTABSETTINGS_INPUT_YAW ->
            << Write(i, "Yaw", output) >>

\* the CameraDesired object after a sequence of Set calls
RECURSIVE ApplyWrites(_, _)
ApplyWrites(cd, ws) ==
    IF ws = << >> THEN cd
    ELSE ApplyWrites([cd EXCEPT ![Head(ws).channel] = Head(ws).value], Tail(ws))

\* ------------------------------------------------------------------------
\* The callback
\* ------------------------------------------------------------------------

\* what the loop carries from one axis to the next
LoopStart(d, cd, dT_millis) ==
    [csd |-> d, cameraDesired |-> cd, dT_millis |-> dT_millis, elevon_roll |-> 0,
     asserted |-> FALSE, writes |-> << >>, done |-> {}, ffApplied |-> {},
     attitude |-> [i \in Axes |-> 0], output |-> [i \in Axes |-> 0]]

\* one iteration of "process axes"
AxisStep(i, loc, cameraStab, attitudeState, accessory) ==
    LET inp == ProcessInput(i, loc.csd.inputs[i], cameraStab, accessory, loc.dT_millis)
        d1  == [loc.csd EXCEPT !.inputs[i] = inp.val]
        lp  == LowPass(cameraStab.ResponseTime[i], d1.attitudeFiltered[i],
                       attitudeState[i], loc.dT_millis)
        d2  == [d1 EXCEPT !.attitudeFiltered[i] = lp]
        ff  == IF cameraStab.FeedForward[i] # 0
               THEN applyFeedForward(i, loc.dT_millis, lp, cameraStab, d2, attitudeState)
               ELSE [asserted |-> FALSE, attitude |-> lp, csd |-> d2]
        output == ServoOutput(ff.attitude, ff.csd.inputs[i], cameraStab.OutputRange[i])
        ws  == ChannelWrites(i, output, loc.elevon_roll, cameraStab)
    IN  IF loc.asserted THEN loc
        ELSE IF inp.asserted THEN [loc EXCEPT !.asserted = TRUE]
        ELSE IF ff.asserted THEN [loc EXCEPT !.asserted = TRUE, !.csd = d2]
        ELSE [loc EXCEPT
                !.csd = ff.csd,
                !.cameraDesired = ApplyWrites(loc.cameraDesired, ws),
                !.elevon_roll = IF i = CAMERASTABSETTINGS_INPUT_ROLL
                                   /\ cameraStab.GimbalType = "RollPitchMixed"
                                THEN output ELSE loc.elevon_roll,
                !.writes = loc.writes \o ws,
                !.done = loc.done \cup {i},
                !.ffApplied = IF cameraStab.FeedForward[i] # 0
                              THEN loc.ffApplied \cup {i} ELSE loc.ffApplied,
                !.attitude[i] = ff.attitude,
                !.output[i] = output]

\* for (i = 0; i < CAMERASTABSETTINGS_INPUT_NUMELEM; i++), each iteration
\* evaluated once
RECURSIVE ProcessAxes(_, _, _, _, _)
ProcessAxes(i, loc, cameraStab, attitudeState, accessory) ==
    IF i >= CAMERASTABSETTINGS_INPUT_NUMELEM THEN loc
    ELSE CHOOSE r \in { ProcessAxes(i + 1, nxt, cameraStab, attitudeState, accessory) :
                          nxt \in { AxisStep(i, loc, cameraStab, attitudeState, accessory) } } :
             TRUE

\* attitudeUpdated: the state the callback leaves, given what it reads
attitudeUpdated(d, cd, cameraStab, thisSysTime, attitudeState, accessory) ==
    ProcessAxes(0,
                LoopStart([d EXCEPT !.lastSysTime = thisSysTime], cd,
                          ElapsedMillis(thisSysTime, d.lastSysTime)),
                cameraStab, attitudeState, accessory)

\* ------------------------------------------------------------------------
\* Actions
\* ------------------------------------------------------------------------

\* number of callbacks a behaviour runs
MaxTicks == 2

\* the zeroed module data
ZeroData(lastSysTime) ==
    [lastSysTime |-> lastSysTime,
     inputs |-> [i \in Axes |-> 0],
     attitudeFiltered |-> [i \in Axes |-> 0],
     ffLastAttitude |-> [i \in Axes |-> 0],
     ffLastAttitudeFiltered |-> [i \in Axes |-> 0],
     ffFilterAccumulator |-> [i \in Axes |-> 0]]

\* CameraStabInitialize: the data is zeroed and the tick count is read
Initialize(Clocks) ==
    /\ \E t \in Clocks : csd = ZeroData(t)
    /\ cameraDesired = [RollOrServo1 |-> 0, PitchOrServo2 |-> 0, Yaw |-> 0]
    /\ pc = "idle"
    /\ nTicks = 0
    /\ tickIn = [cameraStab |-> "none"]
    /\ tickOut = [ffApplied |-> {}]

\* one run of the periodic callback; the settings, the tick count, the
\* attitude and the accessory values it reads are drawn from the given sets
Tick(Settings, Clocks, Attitudes, Accessories) ==
    /\ pc = "idle"
    /\ nTicks < MaxTicks
    /\ \E cameraStab \in Settings, thisSysTime \in Clocks,
          attitudeState \in Attitudes, accessory \in Accessories :
          \E r \in { attitudeUpdated(csd, cameraDesired, cameraStab, thisSysTime,
                                     attitudeState, accessory) } :
              /\ csd' = r.csd
              /\ cameraDesired' = r.cameraDesired
              /\ pc' = IF r.asserted THEN "asserted" ELSE "idle"
              /\ nTicks' = nTicks + 1
              /\ tickIn' = [cameraStab |-> cameraStab, thisSysTime |-> thisSysTime,
                            attitudeState |-> attitudeState, accessory |-> accessory,
                            dT_millis |-> r.dT_millis, before |-> csd]
              /\ tickOut' = [writes |-> r.writes, done |-> r.done,
                             ffApplied |-> r.ffApplied, attitude |-> r.attitude,
                             output |-> r.output, elevon_roll |-> r.elevon_roll,
                             prevFfApplied |-> tickOut.ffApplied]

\* ------------------------------------------------------------------------
\* Inputs
\* ------------------------------------------------------------------------

\* the settings of one axis: no input source, no filter, no feed forward
DefaultAxis ==
    [Input |-> "None", StabilizationMode |-> "Attitude", InputRange |-> 20,
     InputRate |-> 50, OutputRange |-> 40, ResponseTime |-> 0, FeedForward |-> 0,
     AccelTime |-> 5, DecelTime |-> 5]

\* the settings that are not per axis
DefaultGlobals ==
    [MaxAxisLockRate |-> Scale, MaxAccel |-> 500, GimbalType |-> "Generic",
     Servo1PitchReverse |-> "False", Servo2PitchReverse |-> "False"]

\* a CameraStabSettingsData from the settings of its three axes and the rest
MakeSettings(ax, g) ==
    [Input |-> [i \in Axes |-> ax[i].Input],
     StabilizationMode |-> [i \in Axes |-> ax[i].StabilizationMode],
     InputRange |-> [i \in Axes |-> ax[i].InputRange],
     InputRate |-> [i \in Axes |-> ax[i].InputRate],
     OutputRange |-> [i \in Axes |-> ax[i].OutputRange],
     ResponseTime |-> [i \in Axes |-> ax[i].ResponseTime],
     FeedForward |-> [i \in Axes |-> ax[i].FeedForward],
     AccelTime |-> [i \in Axes |-> ax[i].AccelTime],
     DecelTime |-> [i \in Axes |-> ax[i].DecelTime],
     MaxAxisLockRate |-> g.MaxAxisLockRate,
     MaxAccel |-> g.MaxAccel,
     GimbalType |-> g.GimbalType,
     Servo1PitchReverse |-> g.Servo1PitchReverse,
     Servo2PitchReverse |-> g.Servo2PitchReverse]

\* axis i takes the profile k + i of a list, so that over all k every axis
\* takes every profile
Rotations(profiles, g) ==
    { MakeSettings([i \in Axes |-> profiles[((k + i) % Len(profiles)) + 1]], g) :
        k \in 0 .. (Len(profiles) - 1) }

\* tick counts read; a later reading below an earlier one is a counter that
\* wrapped or went back
ClockReadings == {5, 20}

\* attitude samples (roll, pitch, yaw)
Attitude(roll, pitch, yaw) ==
    [i \in Axes |-> CASE i = CAMERASTABSETTINGS_INPUT_ROLL -> roll
                      [] i = CAMERASTABSETTINGS_INPUT_PITCH -> pitch
                      [] i = CAMERASTABSETTINGS_INPUT_YAW -> yaw]

\* the registered AccessoryDesired instances 0 and 1 with their values
Accessory(v0, v1) == [n \in {0, 1} |-> IF n = 0 THEN v0 ELSE v1]

\* --- input processing: sources, modes, ranges and rates ---

TrimProfiles ==
    << [DefaultAxis EXCEPT !.StabilizationMode = "AxisLock", !.ResponseTime = 30],
       [DefaultAxis EXCEPT !.Input = "Accessory0"],
       [DefaultAxis EXCEPT !.Input = "Accessory0", !.StabilizationMode = "AxisLock",
                           !.InputRange = 5],
       [DefaultAxis EXCEPT !.Input = "Accessory0", !.StabilizationMode = "AxisLock",
                           !.InputRange = 5, !.InputRate = 255],
       [DefaultAxis EXCEPT !.StabilizationMode = "Invalid"],
       [DefaultAxis EXCEPT !.Input = "Accessory2", !.StabilizationMode = "AxisLock"] >>

TrimSettings == Rotations(TrimProfiles, DefaultGlobals)

TrimAttitudes == { Attitude(8000, 24000, -20000), Attitude(-20000, 50000, 8000) }

TrimAccessories == { Accessory(v, 0) : v \in {-1000, 20, 1000} }

Init == Initialize(ClockReadings)

Next == Tick(TrimSettings, ClockReadings, TrimAttitudes, TrimAccessories)

Spec == Init /\ [][Next]_vars

\* the last tick, after at least one
Ticked == nTicks > 0

\* the accessory value axis i read in the last tick, if it read one
HasPilotInput(i) ==
    /\ tickIn.cameraStab.Input[i] # "None"
    /\ AccessoryInstance(tickIn.cameraStab.Input[i]) \in DOMAIN tickIn.accessory

PilotInput(i) == tickIn.accessory[AccessoryInstance(tickIn.cameraStab.Input[i])]

\* pilotInput * inputRate of axis i in the last tick
PilotRate(i) == PilotInput(i) * tickIn.cameraStab.InputRate[i]

\* the last tick reached the input processing of axis i
InputProcessed(i) == \A j \in Axes : j < i => j \in tickOut.done

\* C9: the elapsed time a tick uses is positive: the nominal period when the
\* reading is not above the stored one, their difference otherwise; and the
\* tick stores its reading
C9_ElapsedPositive ==
    Ticked =>
        /\ tickIn.dT_millis > 0
        /\ tickIn.thisSysTime <= tickIn.before.lastSysTime => tickIn.dT_millis = 10
        /\ tickIn.thisSysTime > tickIn.before.lastSysTime =>
              tickIn.dT_millis = tickIn.thisSysTime - tickIn.before.lastSysTime
        /\ csd.lastSysTime = tickIn.thisSysTime

\* a tick whose reading is below the stored one took the nominal period
C9_Witness ==
    /\ Ticked
    /\ tickIn.thisSysTime < tickIn.before.lastSysTime
    /\ tickIn.dT_millis = 10
    /\ csd.lastSysTime = tickIn.thisSysTime

\* C7: an axis without input source keeps its trim, and the kept trim is
\* added to the attitude in the output
C7_NoSourceKeepsTrim ==
    Ticked =>
        \A i \in Axes :
            tickIn.cameraStab.Input[i] = "None" =>
                /\ csd.inputs[i] = tickIn.before.inputs[i]
                /\ i \in tickOut.done =>
                      tickOut.output[i] =
                          bound(Quot(tickOut.attitude[i] + tickIn.before.inputs[i],
                                     tickIn.cameraStab.OutputRange[i]), Scale)

\* an axis without source kept a trim that is not zero while the stick was
\* deflected, and its output shows the trim
C7_Witness ==
    /\ Ticked
    /\ \E i \in Axes :
          /\ tickIn.cameraStab.Input[i] = "None"
          /\ i \in tickOut.done
          /\ tickIn.before.inputs[i] # 0
          /\ csd.inputs[i] = tickIn.before.inputs[i]
          /\ tickIn.accessory[0] # 0
          /\ tickOut.output[i] # bound(Quot(tickOut.attitude[i],
                                            tickIn.cameraStab.OutputRange[i]), Scale)

\* C8: in axis lock, a rate within the dead band (equality included) leaves
\* the trim as it was, not advanced and not clamped
C8_DeadBandKeepsTrim ==
    Ticked =>
        \A i \in Axes :
            (/\ tickIn.cameraStab.StabilizationMode[i] = "AxisLock"
             /\ HasPilotInput(i)
             /\ fabsf(PilotRate(i)) <= tickIn.cameraStab.MaxAxisLockRate)
            => csd.inputs[i] = tickIn.before.inputs[i]

\* the rate equals the threshold and the trim, beyond the input range, stayed
C8_Witness ==
    /\ Ticked
    /\ \E i \in Axes :
          /\ tickIn.cameraStab.StabilizationMode[i] = "AxisLock"
          /\ HasPilotInput(i)
          /\ InputProcessed(i)
          /\ fabsf(PilotRate(i)) = tickIn.cameraStab.MaxAxisLockRate
          /\ fabsf(tickIn.before.inputs[i]) > tickIn.cameraStab.InputRange[i] * Scale
          /\ csd.inputs[i] = tickIn.before.inputs[i]

\* axis i integrated a rate outside the dead band in the last tick
AxisLockActive(i) ==
    /\ tickIn.cameraStab.StabilizationMode[i] = "AxisLock"
    /\ HasPilotInput(i)
    /\ InputProcessed(i)
    /\ fabsf(PilotRate(i)) > tickIn.cameraStab.MaxAxisLockRate

\* the trim did not move against the sign of the rate
TowardRate(i) ==
    /\ PilotRate(i) > 0 => csd.inputs[i] >= tickIn.before.inputs[i]
    /\ PilotRate(i) < 0 => csd.inputs[i] <= tickIn.before.inputs[i]

WithinRange(v, i) == fabsf(v) <= tickIn.cameraStab.InputRange[i] * Scale

\* C4 as claimed: outside the dead band the trim moves toward the sign of
\* the rate and stays within the input range, whatever the trim was before
C4_AsClaimed ==
    Ticked =>
        \A i \in Axes :
            AxisLockActive(i) => TowardRate(i) /\ WithinRange(csd.inputs[i], i)

\* C4 amended: outside the dead band the trim ends within the input range,
\* and it has moved toward the sign of the rate when it was within the
\* input range before the tick
C4_TrimClamped ==
    Ticked =>
        \A i \in Axes :
            AxisLockActive(i) =>
                /\ WithinRange(csd.inputs[i], i)
                /\ WithinRange(tickIn.before.inputs[i], i) => TowardRate(i)

\* the trim was within the range, moved, and was stopped at the range
C4_Witness ==
    /\ Ticked
    /\ \E i \in Axes :
          /\ AxisLockActive(i)
          /\ WithinRange(tickIn.before.inputs[i], i)
          /\ csd.inputs[i] > tickIn.before.inputs[i]
          /\ tickIn.before.inputs[i] > 0
          /\ csd.inputs[i] = tickIn.cameraStab.InputRange[i] * Scale

\* --- output mixing: gimbal types and servo reversal ---

MixerGimbalTypes == {"Generic", "RollPitchMixed", "YawRollPitch", "YawPitchRoll"}

\* every gimbal type with every combination of the reversal flags; the roll
\* axis takes a trim from accessory 0
MixerSettings ==
    { MakeSettings([i \in Axes |-> IF i = CAMERASTABSETTINGS_INPUT_ROLL
                                   THEN [DefaultAxis EXCEPT !.Input = "Accessory0"]
                                   ELSE DefaultAxis],
                   [DefaultGlobals EXCEPT !.GimbalType = t,
                                          !.Servo1PitchReverse = r1,
                                          !.Servo2PitchReverse = r2]) :
        t \in MixerGimbalTypes, r1 \in {"False", "True"}, r2 \in {"False", "True"} }

MixerAttitudes ==
    { Attitude(8000, 24000, -20000), Attitude(50000, -20000, 8000),
      Attitude(-20000, 50000, 50000), Attitude(-50000, -50000, 24000) }

MixerAccessories == { Accessory(v, 0) : v \in {0, 1000} }

NextMixer == Tick(MixerSettings, ClockReadings, MixerAttitudes, MixerAccessories)

SpecMixer == Init /\ [][NextMixer]_vars

\* the last tick ran to completion
Completed == Ticked /\ pc = "idle"

Mixed == tickIn.cameraStab.GimbalType = "RollPitchMixed"

\* the positions in the write log of the writes to a channel
WritesTo(channel) == { n \in DOMAIN tickOut.writes : tickOut.writes[n].channel = channel }

\* the positions in the write log of the writes made while axis i was processed
WritesBy(i) == { n \in DOMAIN tickOut.writes : tickOut.writes[n].axis = i }

Channels == {"RollOrServo1", "PitchOrServo2", "Yaw"}

\* the channel an axis writes when the outputs are not mixed
OwnChannel(i) ==
    CASE i = CAMERASTABSETTINGS_INPUT_ROLL -> "RollOrServo1"
      [] i = CAMERASTABSETTINGS_INPUT_PITCH -> "PitchOrServo2"
      [] i = CAMERASTABSETTINGS_INPUT_YAW -> "Yaw"

\* C1 as claimed: every value written to an output channel lies in [-1, 1]
C1_OutputsNormalized ==
    Ticked =>
        \A n \in DOMAIN tickOut.writes :
            /\ tickOut.writes[n].value >= -Scale
            /\ tickOut.writes[n].value <= Scale

\* C2: a completed tick writes each channel exactly once; with mixed outputs
\* the roll step writes nothing and the pitch step writes both servos,
\* otherwise each step writes its own channel
C2_EachChannelOnce ==
    Completed =>
        /\ \A c \in Channels : Cardinality(WritesTo(c)) = 1
        /\ Mixed =>
              /\ WritesBy(CAMERASTABSETTINGS_INPUT_ROLL) = {}
              /\ \A n \in WritesTo("RollOrServo1") \cup WritesTo("PitchOrServo2") :
                    tickOut.writes[n].axis = CAMERASTABSETTINGS_INPUT_PITCH
              /\ \A n \in WritesTo("Yaw") :
                    tickOut.writes[n].axis = CAMERASTABSETTINGS_INPUT_YAW
        /\ ~Mixed =>
              \A i \in Axes :
                  /\ Cardinality(WritesBy(i)) = 1
                  /\ \A n \in WritesBy(i) : tickOut.writes[n].channel = OwnChannel(i)

\* a completed tick with mixed outputs wrote three values, none in the roll step
C2_Witness ==
    /\ Completed
    /\ Mixed
    /\ Len(tickOut.writes) = 3
    /\ WritesBy(CAMERASTABSETTINGS_INPUT_ROLL) = {}
    /\ Cardinality(WritesBy(CAMERASTABSETTINGS_INPUT_PITCH)) = 2

\* the clamped roll and pitch outputs of the last tick
ElevonRoll == tickOut.output[CAMERASTABSETTINGS_INPUT_ROLL]
ElevonPitch == tickOut.output[CAMERASTABSETTINGS_INPUT_PITCH]

\* C3: with mixed outputs channel 1 receives ((1 - pitch) + roll) / 2 if servo
\* 1 is reversed and (pitch + roll) / 2 otherwise, channel 2 receives
\* ((1 - pitch) - roll) / 2 if servo 2 is reversed and (pitch - roll) / 2
\* otherwise, pitch and roll being the clamped outputs of the same tick
C3_ElevonMixing ==
    (Completed /\ Mixed) =>
        /\ ElevonRoll = bound(Quot(tickOut.attitude[CAMERASTABSETTINGS_INPUT_ROLL]
                                     + csd.inputs[CAMERASTABSETTINGS_INPUT_ROLL],
                                   tickIn.cameraStab.OutputRange[CAMERASTABSETTINGS_INPUT_ROLL]),
                              Scale)
        /\ ElevonPitch = bound(Quot(tickOut.attitude[CAMERASTABSETTINGS_INPUT_PITCH]
                                      + csd.inputs[CAMERASTABSETTINGS_INPUT_PITCH],
                                    tickIn.cameraStab.OutputRange[CAMERASTABSETTINGS_INPUT_PITCH]),
                               Scale)
        /\ cameraDesired.RollOrServo1 =
              IF tickIn.cameraStab.Servo1PitchReverse = "True"
              THEN Quot((Scale - ElevonPitch) + ElevonRoll, 2)
              ELSE Quot(ElevonPitch + ElevonRoll, 2)
        /\ cameraDesired.PitchOrServo2 =
              IF tickIn.cameraStab.Servo2PitchReverse = "True"
              THEN Quot((Scale - ElevonPitch) - ElevonRoll, 2)
              ELSE Quot(ElevonPitch - ElevonRoll, 2)

\* roll 0.2 and pitch 0.6 with only servo 2 reversed give 0.4 and 0.1, in a
\* tick that follows one with another roll output
C3_Witness ==
    /\ Completed
    /\ Mixed
    /\ nTicks = 2
    /\ tickIn.cameraStab.Servo1PitchReverse = "False"
    /\ tickIn.cameraStab.Servo2PitchReverse = "True"
    /\ ElevonRoll = 200
    /\ ElevonPitch = 600
    /\ tickIn.before.attitudeFiltered[CAMERASTABSETTINGS_INPUT_ROLL] # 8000
    /\ cameraDesired.RollOrServo1 = 400
    /\ cameraDesired.PitchOrServo2 = 100

\* --- feed forward: gains, time constants and the acceleration limit ---

FFProfiles ==
    << [DefaultAxis EXCEPT !.FeedForward = 3, !.AccelTime = 30, !.DecelTime = 50],
       DefaultAxis,
       [DefaultAxis EXCEPT !.FeedForward = 10, !.ResponseTime = 30] >>

FFSettings ==
    UNION { Rotations(FFProfiles, [DefaultGlobals EXCEPT !.MaxAccel = a, !.GimbalType = t]) :
              a \in {0, 500, 20000}, t \in {"Generic", "YawRollPitch"} }

FFAttitudes == { Attitude(8000, 24000, -20000), Attitude(9000, -20000, 50000) }

FFAccessories == { Accessory(0, 0) }

NextFF == Tick(FFSettings, ClockReadings, FFAttitudes, FFAccessories)

SpecFF == Init /\ [][NextFF]_vars

\* maxAccel * dT / 1000 of the last tick
MaxDelta == Quot(tickIn.cameraStab.MaxAccel * Scale * tickIn.dT_millis, 1000)

\* feed forward was applied to axis i in the last tick and in the one before
FFTwice(i) == i \in tickOut.ffApplied /\ i \in tickOut.prevFfApplied

\* C5: on an axis with feed forward in two consecutive ticks, the stored
\* filtered attitude moves by at most maxAccel * dT / 1000 from one tick to
\* the next
C5_AccelLimited ==
    Ticked =>
        \A i \in Axes :
            FFTwice(i) =>
                fabsf(csd.ffLastAttitudeFiltered[i] - tickIn.before.ffLastAttitudeFiltered[i])
                    <= MaxDelta

\* the attitude jumped by more than the limit and the stored value moved by
\* exactly the limit
C5_Witness ==
    /\ Ticked
    /\ \E i \in Axes :
          /\ FFTwice(i)
          /\ MaxDelta > 0
          /\ fabsf(tickIn.attitudeState[i] - tickIn.before.ffLastAttitude[i]) > MaxDelta
          /\ fabsf(csd.ffLastAttitudeFiltered[i] - tickIn.before.ffLastAttitudeFiltered[i])
                = MaxDelta

\* --- independence of the axes: gimbal types with and without feed forward ---

LeakProfiles(gain) ==
    [i \in Axes |->
        CASE i = CAMERASTABSETTINGS_INPUT_ROLL ->
                [DefaultAxis EXCEPT !.Input = "Accessory0", !.FeedForward = gain,
                                    !.AccelTime = 30, !.OutputRange = 200]
          [] i = CAMERASTABSETTINGS_INPUT_PITCH ->
                [DefaultAxis EXCEPT !.Input = "Accessory1", !.StabilizationMode = "AxisLock",
                                    !.InputRate = 255, !.FeedForward = gain,
                                    !.OutputRange = 200]
          [] i = CAMERASTABSETTINGS_INPUT_YAW ->
                [DefaultAxis EXCEPT !.ResponseTime = 30, !.FeedForward = gain,
                                    !.OutputRange = 200]]

LeakSettings ==
    { MakeSettings(LeakProfiles(gain),
                   [DefaultGlobals EXCEPT !.GimbalType = t, !.MaxAccel = 20000]) :
        gain \in {0, 3}, t \in MixerGimbalTypes }

LeakAttitudeValues == {-20000, 24000}

LeakAccessoryValues == {-1000, 1000}

LeakAttitudes == { Attitude(24000, -20000, 24000), Attitude(-20000, 24000, 24000) }

LeakAccessories == { Accessory(1000, -1000) }

NextLeak == Tick(LeakSettings, ClockReadings, LeakAttitudes, LeakAccessories)

SpecLeak == Init /\ [][NextLeak]_vars

\* the attitude samples that differ from those of the last tick on other
\* axes than k only
AltAttitudes(k) ==
    { a \in [Axes -> LeakAttitudeValues] : a[k] = tickIn.attitudeState[k] }

\* the accessory values that differ from those of the last tick on other
\* instances than the one axis k reads
AltAccessories(k) ==
    { c \in [DOMAIN tickIn.accessory -> LeakAccessoryValues] :
        HasPilotInput(k) =>
            c[AccessoryInstance(tickIn.cameraStab.Input[k])] = PilotInput(k) }

\* module data d with the filter state of the other axes than k set to v
OtherAxesSet(d, k, v) ==
    [lastSysTime |-> d.lastSysTime,
     inputs |-> [i \in Axes |-> IF i = k THEN d.inputs[i] ELSE v],
     attitudeFiltered |-> [i \in Axes |-> IF i = k THEN d.attitudeFiltered[i] ELSE v],
     ffLastAttitude |-> [i \in Axes |-> IF i = k THEN d.ffLastAttitude[i] ELSE v],
     ffLastAttitudeFiltered |->
        [i \in Axes |-> IF i = k THEN d.ffLastAttitudeFiltered[i] ELSE v],
     ffFilterAccumulator |-> [i \in Axes |-> IF i = k THEN d.ffFilterAccumulator[i] ELSE v]]

\* the filter state of axis k in module data d
AxisData(d, k) ==
    << d.inputs[k], d.attitudeFiltered[k], d.ffLastAttitude[k],
       d.ffLastAttitudeFiltered[k], d.ffFilterAccumulator[k] >>

\* the values written to the channel of axis k
OwnWrites(ws, k) == SelectSeq(ws, LAMBDA w : w.channel = OwnChannel(k))

\* the last tick run again from module data d with attitude a and accessories c
Rerun(d, a, c) ==
    attitudeUpdated(d, cameraDesired, tickIn.cameraStab, tickIn.thisSysTime, a, c)

\* the feed forward of axis k read the attitude of another axis in the last tick
Corrected(k) ==
    /\ tickIn.cameraStab.FeedForward[k] # 0
    /\ \/ /\ tickIn.cameraStab.GimbalType = "YawRollPitch"
          /\ k = CAMERASTABSETTINGS_INPUT_ROLL
       \/ /\ tickIn.cameraStab.GimbalType = "YawPitchRoll"
          /\ k = CAMERASTABSETTINGS_INPUT_PITCH

\* C6 as claimed: without mixing, what a tick writes to the channel of an
\* axis does not change when only the attitude or the pilot input of
\* another axis changes
C6_AsClaimed ==
    (Ticked /\ ~Mixed) =>
        \A k \in Axes : \A a \in AltAttitudes(k) : \A c \in AltAccessories(k) :
            OwnWrites(Rerun(tickIn.before, a, c).writes, k) = OwnWrites(tickOut.writes, k)

\* C6 amended: without mixing, and unless the feed forward of the axis takes
\* the gimbal type correction (roll with YawRollPitch, pitch with
\* YawPitchRoll), what a tick writes to the channel of an axis, and the
\* filter state it leaves for the axis, do not change when the attitude, the
\* pilot input or the filter state of another axis changes
C6_OwnAxisOnly ==
    (Ticked /\ ~Mixed) =>
        \A k \in Axes :
            ~Corrected(k) =>
                \A a \in AltAttitudes(k) : \A c \in AltAccessories(k) :
                    \A d \in { tickIn.before, OtherAxesSet(tickIn.before, k, 7000) } :
                        \E r \in { Rerun(d, a, c) } :
                            /\ OwnWrites(r.writes, k) = OwnWrites(tickOut.writes, k)
                            /\ AxisData(r.csd, k) = AxisData(csd, k)

\* pitch with feed forward under YawRollPitch wrote a value that the roll
\* attitude, the roll stick and the filter state of roll and yaw leave alone
C6_Witness ==
    /\ Ticked
    /\ nTicks = 2
    /\ tickIn.cameraStab.GimbalType = "YawRollPitch"
    /\ CAMERASTABSETTINGS_INPUT_PITCH \in tickOut.ffApplied
    /\ CAMERASTABSETTINGS_INPUT_PITCH \in tickOut.prevFfApplied
    /\ Len(OwnWrites(tickOut.writes, CAMERASTABSETTINGS_INPUT_PITCH)) = 1
    /\ \A a \in AltAttitudes(CAMERASTABSETTINGS_INPUT_PITCH) :
          OwnWrites(Rerun(OtherAxesSet(tickIn.before, CAMERASTABSETTINGS_INPUT_PITCH, 7000),
                          a, tickIn.accessory).writes, CAMERASTABSETTINGS_INPUT_PITCH)
            = OwnWrites(tickOut.writes, CAMERASTABSETTINGS_INPUT_PITCH)
    /\ \E a \in AltAttitudes(CAMERASTABSETTINGS_INPUT_PITCH) :
          Rerun(tickIn.before, a, tickIn.accessory).writes # tickOut.writes

\* --- assertions: values outside the enumerations ---

\* axis bad (none if bad is no axis) has a stabilization mode outside the
\* enumeration; every axis reads the given input; yaw has the given gain
AssertProfiles(bad, input, gain) ==
    [i \in Axes |->
        [DefaultAxis EXCEPT
            !.Input = input,
            !.StabilizationMode = IF i = bad THEN "Invalid" ELSE "AxisLock",
            !.FeedForward = IF i = CAMERASTABSETTINGS_INPUT_YAW THEN gain ELSE 0]]

AssertSettings ==
    { MakeSettings(AssertProfiles(bad, input, gain), [DefaultGlobals EXCEPT !.GimbalType = t]) :
        bad \in Axes \cup {CAMERASTABSETTINGS_INPUT_NUMELEM},
        input \in {"None", "Accessory0", "Accessory2"},
        gain \in {0, 3},
        t \in {"Generic", "Invalid"} }

AssertAttitudes == { Attitude(8000, 24000, -20000) }

AssertAccessories == { Accessory(1000, 0) }

NextAssert == Tick(AssertSettings, ClockReadings, AssertAttitudes, AssertAccessories)

SpecAssert == Init /\ [][NextAssert]_vars

StabilizationModes == {"Attitude", "AxisLock"}

GimbalTypes == {"Generic", "RollPitchMixed", "YawRollPitch", "YawPitchRoll"}

\* C10 as claimed: a tick whose settings hold a stabilization mode or a
\* gimbal type outside the enumeration ends in an assertion failure
C10_AsClaimed ==
    Ticked =>
        ((\/ \E i \in Axes : tickIn.cameraStab.StabilizationMode[i] \notin StabilizationModes
          \/ tickIn.cameraStab.GimbalType \notin GimbalTypes)
         => pc = "asserted")

\* C10 amended: a tick ends in an assertion failure when an axis whose
\* accessory is read has a stabilization mode outside the enumeration, or
\* when the gimbal type is outside the enumeration and an axis has a feed
\* forward gain other than zero
C10_AssertsWhereExamined ==
    Ticked =>
        ((\/ \E i \in Axes :
                /\ tickIn.cameraStab.StabilizationMode[i] \notin StabilizationModes
                /\ HasPilotInput(i)
          \/ /\ tickIn.cameraStab.GimbalType \notin GimbalTypes
             /\ \E i \in Axes : tickIn.cameraStab.FeedForward[i] # 0)
         => pc = "asserted")

\* the yaw axis, with its accessory read, had a mode outside the enumeration:
\* roll and pitch were written, yaw was not, and the callback stopped
C10_Witness ==
    /\ Ticked
    /\ pc = "asserted"
    /\ tickIn.cameraStab.StabilizationMode[CAMERASTABSETTINGS_INPUT_YAW] \notin StabilizationModes
    /\ HasPilotInput(CAMERASTABSETTINGS_INPUT_YAW)
    /\ tickIn.cameraStab.GimbalType \in GimbalTypes
    /\ tickOut.done = {CAMERASTABSETTINGS_INPUT_ROLL, CAMERASTABSETTINGS_INPUT_PITCH}
    /\ WritesTo("Yaw") = {}

====
